---------------------------- MODULE Spec2Model ----------------------------
(***************************************************************************)
(* A model of Crysknife's PrivateAccessor.h: the Binding Slot              *)
(* TResult<Tag>::Ptr, the Binder TRob<Tag, Ptr>::Obj, the declaration      *)
(* macros, the access macros, and the FTestClass use case of the header.   *)
(***************************************************************************)
EXTENDS Integers, Sequences, FiniteSets

(***************************************************************************)
(* Bounds of the model.                                                    *)
(***************************************************************************)
\* Number of FTestClass instances alive in the program.
NumInst == 2
\* How far the field Value may be raised above its initial value.
MaxBump == 1
\* Accesses a client's own static initializer makes during static init.
MaxInitAccess == 1
\* Reader threads the host starts once main has begun.
NumThreads == 2
\* Accessor declarations a translation unit makes (declaration model).
MaxDecls == 3

(***************************************************************************)
(* Program constants and value domains.                                    *)
(***************************************************************************)
\* int32_t Value = 42;
InitValue == 42
\* nullptr
NullPtr == 0

Insts == 1..NumInst
Values == InitValue..(InitValue + MaxBump)
\* (const FTestClass*)0xdeadbeef: an address that is no instance.
DeadBeef == NumInst + 1
Pointers == {NullPtr} \cup Insts \cup {DeadBeef}
\* operator[] has not created an entry of the std::map yet.
NoEntry == 0
Threads == 1..NumThreads

(***************************************************************************)
(* class FTestClass: its members, by name, storage, kind and signature.    *)
(***************************************************************************)
MInstance ==
    [name |-> "Instance", storage |-> "static", kind |-> "variable",
     sig |-> "const FTestClass*", qual |-> ""]
MValue ==
    [name |-> "Value", storage |-> "instance", kind |-> "variable",
     sig |-> "int32_t", qual |-> ""]
MIncrement ==
    [name |-> "Increment", storage |-> "instance", kind |-> "function",
     sig |-> "void()", qual |-> ""]
MRegister ==
    [name |-> "Register", storage |-> "static", kind |-> "function",
     sig |-> "bool(const FTestClass*)", qual |-> ""]
MRegisterToMap ==
    [name |-> "Register", storage |-> "instance", kind |-> "function",
     sig |-> "void(FTestClassIndexMap&)", qual |-> "const"]
MPrint ==
    [name |-> "Print", storage |-> "instance", kind |-> "function",
     sig |-> "void()", qual |-> "const"]

FTestClass == {MInstance, MValue, MIncrement, MRegister, MRegisterToMap, MPrint}

(***************************************************************************)
(* The declaration macros.  Each yields the tag struct's name and the      *)
(* typedef Type of the slot.                                               *)
(***************************************************************************)
\* Mutant: the tag is left out of the pasted name (a slot per member name).
SlotName_MemberOnly(ClassTag, MemberName) ==
    "F" \o MemberName \o "PrivateAccessor"

\* F##ClassTag##MemberName##PrivateAccessor
SlotName(ClassTag, MemberName) ==
    "F" \o ClassTag \o MemberName \o "PrivateAccessor"

\* typedef MemberType (Class::*Type);
DEFINE_PRIVATE_ACCESSOR_VARIABLE_EX(ClassTag, Class, MemberType, MemberName) ==
    [tag |-> ClassTag, class |-> Class, member |-> MemberName,
     storage |-> "instance", kind |-> "variable", sig |-> MemberType, qual |-> ""]

\* typedef MemberType* Type;
DEFINE_PRIVATE_ACCESSOR_STATIC_VARIABLE_EX(ClassTag, Class, MemberType, MemberName) ==
    [tag |-> ClassTag, class |-> Class, member |-> MemberName,
     storage |-> "static", kind |-> "variable", sig |-> MemberType, qual |-> ""]

\* typedef ReturnType(Class::*Type)(__VA_ARGS__) Qualifier;
DEFINE_PRIVATE_ACCESSOR_FUNCTION_EX(ClassTag, Class, Sig, MemberName, Qualifier) ==
    [tag |-> ClassTag, class |-> Class, member |-> MemberName,
     storage |-> "instance", kind |-> "function", sig |-> Sig, qual |-> Qualifier]

\* typedef ReturnType(*Type)(__VA_ARGS__);
DEFINE_PRIVATE_ACCESSOR_STATIC_FUNCTION_EX(ClassTag, Class, Sig, MemberName) ==
    [tag |-> ClassTag, class |-> Class, member |-> MemberName,
     storage |-> "static", kind |-> "function", sig |-> Sig, qual |-> ""]

\* The sugars pass Class as the tag; the _TAG forms pass a tag of their own.
DEFINE_PRIVATE_ACCESSOR_VARIABLE(Class, MemberType, MemberName) ==
    DEFINE_PRIVATE_ACCESSOR_VARIABLE_EX(Class, Class, MemberType, MemberName)
DEFINE_PRIVATE_ACCESSOR_STATIC_VARIABLE(Class, MemberType, MemberName) ==
    DEFINE_PRIVATE_ACCESSOR_STATIC_VARIABLE_EX(Class, Class, MemberType, MemberName)
DEFINE_PRIVATE_ACCESSOR_FUNCTION(Class, Sig, MemberName) ==
    DEFINE_PRIVATE_ACCESSOR_FUNCTION_EX(Class, Class, Sig, MemberName, "")
DEFINE_PRIVATE_ACCESSOR_STATIC_FUNCTION(Class, Sig, MemberName) ==
    DEFINE_PRIVATE_ACCESSOR_STATIC_FUNCTION_EX(Class, Class, Sig, MemberName)
DEFINE_PRIVATE_ACCESSOR_CONST_FUNCTION_TAG(ClassTag, Class, Sig, MemberName) ==
    DEFINE_PRIVATE_ACCESSOR_FUNCTION_EX(ClassTag, Class, Sig, MemberName, "const")

\* The five accessors the use case declares.
DeclValue == DEFINE_PRIVATE_ACCESSOR_VARIABLE("FTestClass", "int32_t", "Value")
DeclInstance ==
    DEFINE_PRIVATE_ACCESSOR_STATIC_VARIABLE("FTestClass", "const FTestClass*", "Instance")
DeclIncrement == DEFINE_PRIVATE_ACCESSOR_FUNCTION("FTestClass", "void()", "Increment")
DeclRegister ==
    DEFINE_PRIVATE_ACCESSOR_STATIC_FUNCTION("FTestClass", "bool(const FTestClass*)", "Register")
DeclRegisterToMap ==
    DEFINE_PRIVATE_ACCESSOR_CONST_FUNCTION_TAG("FTestClassToMap", "FTestClass",
                                               "void(FTestClassIndexMap&)", "Register")

Declarations == {DeclValue, DeclInstance, DeclIncrement, DeclRegister, DeclRegisterToMap}

SlotOf(d) == SlotName(d.tag, d.member)
Slots == {SlotOf(d) : d \in Declarations}
DeclOf(s) == CHOOSE d \in Declarations : SlotOf(d) = s

(***************************************************************************)
(* Handles.  A handle is two machine words (a pointer to member function   *)
(* is a pair); the slot is zero-initialized.                               *)
(***************************************************************************)
Null == "null"
Handle(m) == "&FTestClass::" \o m.name \o " as " \o m.sig \o " " \o m.qual
Full(h) == <<h, h>>
Unbound == Full(Null)

\* Mutant: the member is looked up by name alone, whatever its signature.
AddressOf_ByName(d) ==
    Handle(CHOOSE m \in FTestClass : m.name = d.member)

\* &Class::MemberName converted to Tag::Type: the member of that name whose
\* storage, kind, signature and qualifier are those of the typedef.
AddressOf(d) ==
    Handle(CHOOSE m \in FTestClass :
               /\ m.name = d.member
               /\ m.storage = d.storage
               /\ m.kind = d.kind
               /\ m.sig = d.sig
               /\ m.qual = d.qual)

Target(s) == AddressOf(DeclOf(s))

VARIABLES
    slot,          \* TResult<Tag>::Ptr of every tag: a pair of words
    constructed,   \* the tags whose TRob<Tag, Ptr>::Obj has been constructed
    binding,       \* the tag whose TRob constructor is storing, or NoSlot
    writes,        \* assignments made to each slot so far
    phase,         \* "static_init", "main" or "crashed"
    initAccesses,  \* accesses made so far by the client's static initializer
    heap,          \* FTestClass's data: Value, Instance, and the test's map
    last,          \* the last access made and what full access would give
    tpc,           \* reader threads: what each is doing
    tobs,          \* reader threads: the last pair of words each has read
    defined,       \* declaration model: tag struct name -> its declaration
    build          \* declaration model: "ok" or "failed"

vars == <<slot, constructed, binding, writes, phase, initAccesses, heap, last,
          tpc, tobs, defined, build>>

NoSlot == "none"

progVars == <<slot, constructed, binding, writes, phase, initAccesses, heap, last>>
threadVars == <<tpc, tobs>>
declVars == <<defined, build>>


(***************************************************************************)
(* FTestClass's member bodies, as full access runs them.  Each gives the   *)
(* resulting data and the value returned (0 for void, 1 for true).         *)
(***************************************************************************)
\* void Increment() { Value++; }
Increment(x, hp) ==
    [heap |-> [hp EXCEPT !.Value[x] = @ + 1], ret |-> 0]

\* static bool Register(const FTestClass* Ptr) { Instance = Ptr; return true; }
Register(p, hp) ==
    [heap |-> [hp EXCEPT !.Instance = p], ret |-> 1]

\* void Register(map& Dictionary) const { Dictionary[this] = Value; }
RegisterToMap(x, hp) ==
    [heap |-> [hp EXCEPT !.TestClassIndexMap[x] = hp.Value[x]], ret |-> 0]

(***************************************************************************)
(* Applying a handle: Obj.*h, Ptr->*h, *h and calls through them.          *)
(***************************************************************************)
Bound(h) == \E m \in FTestClass : Full(Handle(m)) = h
Resolve(h) == CHOOSE m \in FTestClass : Full(Handle(m)) = h

\* TResult<F##ClassTag##MemberName##PrivateAccessor>::Ptr
PRIVATE_ACCESS(ClassTag, MemberName) == slot[SlotName(ClassTag, MemberName)]

\* (Obj.*h) and (Ptr->*h) of a data member, read: the field of that instance.
ReadMember(h, x, hp) == hp[Resolve(h).name][x]

\* Mutant: the store lands on the field of every instance.
WriteMember_AllInst(h, x, v, hp) ==
    [hp EXCEPT ![Resolve(h).name] = [y \in Insts |-> v]]

\* (Obj.*h) = v: the field of that instance, written.
WriteMember(h, x, v, hp) == [hp EXCEPT ![Resolve(h).name][x] = v]

\* Mutant: the slot holds a copy of the static's initial value.
ReadStatic_Initial(h, hp) == NullPtr

\* (*h) of a static variable, read and written.
ReadStatic(h, hp) == hp[Resolve(h).name]
WriteStatic(h, p, hp) == [hp EXCEPT ![Resolve(h).name] = p]

\* Mutant: the member function runs on a copy of Obj.
CallMember_OnCopy(h, x, hp) ==
    LET m == Resolve(h)
    IN  CASE m = MIncrement -> [heap |-> hp, ret |-> Increment(x, hp).ret]
          [] m = MRegisterToMap -> [heap |-> hp, ret |-> RegisterToMap(x, hp).ret]
          [] OTHER -> [heap |-> hp, ret |-> 0]

\* (Obj.*h)(args): the body of the member function h points to, on Obj.
CallMember(h, x, hp) ==
    LET m == Resolve(h)
    IN  CASE m = MIncrement -> Increment(x, hp)
          [] m = MRegisterToMap -> RegisterToMap(x, hp)
          [] OTHER -> [heap |-> hp, ret |-> 0]

\* (*h)(args): the body of the static function h points to.
CallStatic(h, p, hp) ==
    LET m == Resolve(h)
    IN  CASE m = MRegister -> Register(p, hp)
          [] OTHER -> [heap |-> hp, ret |-> 0]

(***************************************************************************)
(* Initial state: slots zero-initialized, no binder has run, Value = 42,   *)
(* Instance = nullptr, the map empty.                                      *)
(***************************************************************************)
InitHeap ==
    [Value |-> [x \in Insts |-> InitValue],
     Instance |-> NullPtr,
     TestClassIndexMap |-> [x \in Insts |-> NoEntry]]

NoAccess ==
    [op |-> "none", slot |-> NoSlot, handle |-> Unbound, inst |-> 0, arg |-> 0,
     ret |-> 0, ret2 |-> 0, pre |-> 0, phase |-> "static_init", outcome |-> "ok",
     direct |-> InitHeap, directRet |-> 0]

InitProgram ==
    /\ slot = [s \in Slots |-> Unbound]
    /\ constructed = {}
    /\ binding = NoSlot
    /\ writes = [s \in Slots |-> 0]
    /\ phase = "static_init"
    /\ initAccesses = 0
    /\ heap = InitHeap
    /\ last = NoAccess

InitThreads ==
    /\ tpc = [t \in Threads |-> "idle"]
    /\ tobs = [t \in Threads |-> <<NoSlot, Null, Null>>]

InitDecls ==
    /\ defined = <<>>
    /\ build = "ok"

Init == InitProgram /\ InitThreads /\ InitDecls

(***************************************************************************)
(* Static initialization.  TRob<Tag, Ptr>::Obj is a static data member of  *)
(* an explicitly instantiated template: its initialization is unordered    *)
(* relative to every other dynamic initializer, so the binders and the     *)
(* client's static initializer run in any order, in one thread.            *)
(***************************************************************************)
\* Mutant: one binder per including unit, each assigning the slot again.
TRobStoreLo_PerUnit(s) ==
    /\ phase = "static_init"
    /\ binding = NoSlot
    /\ slot' = [slot EXCEPT ![s] = <<Target(s), @[2]>>]
    /\ binding' = s
    /\ writes' = [writes EXCEPT ![s] = @ + 1]
    /\ UNCHANGED <<constructed, phase, initAccesses, heap, last>>
    /\ UNCHANGED <<threadVars, declVars>>

\* Mutant: one slot shared by every tag; binding one rebinds all.
TRobStoreLo_Shared(s) ==
    /\ phase = "static_init"
    /\ binding = NoSlot
    /\ s \notin constructed
    /\ slot' = [r \in Slots |-> <<Target(s), slot[r][2]>>]
    /\ binding' = s
    /\ writes' = [writes EXCEPT ![s] = @ + 1]
    /\ UNCHANGED <<constructed, phase, initAccesses, heap, last>>
    /\ UNCHANGED <<threadVars, declVars>>

\* TRob() { TResult<Tag>::Ptr = Ptr; }: the store of the first word.
TRobStoreLo(s) ==
    /\ phase = "static_init"
    /\ binding = NoSlot
    /\ s \notin constructed
    /\ slot' = [slot EXCEPT ![s] = <<Target(s), @[2]>>]
    /\ binding' = s
    /\ writes' = [writes EXCEPT ![s] = @ + 1]
    /\ UNCHANGED <<constructed, phase, initAccesses, heap, last>>
    /\ UNCHANGED <<threadVars, declVars>>

\* Mutant: the constructor returns without finishing the assignment.
TRobStoreHi_NoStore(s) ==
    /\ phase = "static_init"
    /\ binding = s
    /\ binding' = NoSlot
    /\ constructed' = constructed \cup {s}
    /\ UNCHANGED <<slot, writes, phase, initAccesses, heap, last>>
    /\ UNCHANGED <<threadVars, declVars>>

\* TRob() { TResult<Tag>::Ptr = Ptr; }: the store of the second word; the
\* constructor returns and Obj is constructed.
TRobStoreHi(s) ==
    /\ phase = "static_init"
    /\ binding = s
    /\ slot' = [slot EXCEPT ![s] = <<@[1], Target(s)>>]
    /\ binding' = NoSlot
    /\ constructed' = constructed \cup {s}
    /\ UNCHANGED <<writes, phase, initAccesses, heap, last>>
    /\ UNCHANGED <<threadVars, declVars>>

\* Mutant: main begins while binders are still to run.
StaticInitComplete_NoWait == binding = NoSlot

\* Every static object of the link has been initialized.
StaticInitComplete == constructed = Slots /\ binding = NoSlot

\* main() begins.
EnterMain ==
    /\ phase = "static_init"
    /\ StaticInitComplete
    /\ phase' = "main"
    /\ UNCHANGED <<slot, constructed, binding, writes, initAccesses, heap, last>>
    /\ UNCHANGED <<threadVars, declVars>>


(***************************************************************************)
(* The client: code that uses the access macros.  It runs in main, or in a *)
(* static initializer of its own, which static initialization runs between *)
(* two binders, never in the middle of one.                                *)
(***************************************************************************)
ClientMayRun ==
    \/ phase = "main"
    \/ /\ phase = "static_init"
       /\ binding = NoSlot
       /\ initAccesses < MaxInitAccess

R(hp, r) == [heap |-> hp, ret |-> r]

\* One access: what it did (res), what it returned besides (r2), how it
\* ended (out), what the same operation does with full access (dir), and
\* the instance's Value before it (pre).
Commit(op, s, x, a, res, r2, out, dir) ==
    /\ heap' = res.heap
    /\ last' = [op |-> op, slot |-> s,
                handle |-> IF s = NoSlot THEN Unbound ELSE slot[s],
                inst |-> x, arg |-> a, ret |-> res.ret, ret2 |-> r2,
                pre |-> IF x \in Insts THEN heap.Value[x] ELSE 0,
                phase |-> phase, outcome |-> out,
                direct |-> dir.heap, directRet |-> dir.ret]
    /\ phase' = IF out = "crash" THEN "crashed" ELSE phase
    /\ initAccesses' = IF phase = "static_init" THEN initAccesses + 1 ELSE initAccesses
    /\ UNCHANGED <<slot, constructed, binding, writes>>
    /\ UNCHANGED <<threadVars, declVars>>

\* A call through a null function pointer or pointer to member function, or
\* a dereference of a null pointer: the process faults.
Crash(op, s, x, a, dir) == Commit(op, s, x, a, R(heap, 0), 0, "crash", dir)

\* PRIVATE_ACCESS_PTR(FTestClass, Value, Ptr), read.  Through a null pointer
\* to data member the read is undefined: a fault, or whatever lies there.
GetValue(x) ==
    LET h == PRIVATE_ACCESS("FTestClass", "Value")
        s == SlotName("FTestClass", "Value")
        dir == R(heap, heap.Value[x])
    IN  /\ ClientMayRun
        /\ IF Bound(h)
           THEN Commit("GetValue", s, x, 0, R(heap, ReadMember(h, x, heap)), 0, "ok", dir)
           ELSE \/ Crash("GetValue", s, x, 0, dir)
                \/ \E g \in Values :
                      Commit("GetValue", s, x, 0, R(heap, g), 0, "garbage", dir)

\* PRIVATE_ACCESS_OBJ(FTestClass, Value, Obj) = v.  Through a null pointer
\* to data member the write is undefined: a fault, or a store that lands on
\* the bytes around the object.
SetValue(x, v) ==
    LET h == PRIVATE_ACCESS("FTestClass", "Value")
        s == SlotName("FTestClass", "Value")
        dir == R([heap EXCEPT !.Value[x] = v], 0)
    IN  /\ ClientMayRun
        /\ IF Bound(h)
           THEN Commit("SetValue", s, x, v, R(WriteMember(h, x, v, heap), 0), 0, "ok", dir)
           ELSE \/ Crash("SetValue", s, x, v, dir)
                \/ \E g \in Values :
                      Commit("SetValue", s, x, v, R([heap EXCEPT !.Value[x] = g], 0),
                             0, "garbage", dir)

\* PRIVATE_ACCESS_OBJ(FTestClass, Increment, Obj)();
CallIncrement(x) ==
    LET h == PRIVATE_ACCESS("FTestClass", "Increment")
        s == SlotName("FTestClass", "Increment")
        dir == Increment(x, heap)
    IN  /\ ClientMayRun
        /\ heap.Value[x] < InitValue + MaxBump
        /\ IF Bound(h)
           THEN Commit("CallIncrement", s, x, 0, CallMember(h, x, heap), 0, "ok", dir)
           ELSE Crash("CallIncrement", s, x, 0, dir)

\* bool bSuccess = PRIVATE_ACCESS_STATIC(FTestClass, Register)(Ptr);
CallRegister(p) ==
    LET h == PRIVATE_ACCESS("FTestClass", "Register")
        s == SlotName("FTestClass", "Register")
        dir == Register(p, heap)
    IN  /\ ClientMayRun
        /\ IF Bound(h)
           THEN Commit("CallRegister", s, 0, p, CallStatic(h, p, heap), 0, "ok", dir)
           ELSE Crash("CallRegister", s, 0, p, dir)

\* PRIVATE_ACCESS_STATIC(FTestClass, Instance) = p;
SetInstance(p) ==
    LET h == PRIVATE_ACCESS("FTestClass", "Instance")
        s == SlotName("FTestClass", "Instance")
        dir == R([heap EXCEPT !.Instance = p], 0)
    IN  /\ ClientMayRun
        /\ IF Bound(h)
           THEN Commit("SetInstance", s, 0, p, R(WriteStatic(h, p, heap), 0), 0, "ok", dir)
           ELSE Crash("SetInstance", s, 0, p, dir)

\* PRIVATE_ACCESS_STATIC(FTestClass, Instance), read.
GetInstance ==
    LET h == PRIVATE_ACCESS("FTestClass", "Instance")
        s == SlotName("FTestClass", "Instance")
        dir == R(heap, heap.Instance)
    IN  /\ ClientMayRun
        /\ IF Bound(h)
           THEN Commit("GetInstance", s, 0, 0, R(heap, ReadStatic(h, heap)), 0, "ok", dir)
           ELSE Crash("GetInstance", s, 0, 0, dir)

\* FTestClassIndexMap TestClassIndexMap;  (a local, empty at the call)
\* PRIVATE_ACCESS_PTR(FTestClassToMap, Register, Ptr)(TestClassIndexMap);
CallRegisterToMap(x) ==
    LET h == PRIVATE_ACCESS("FTestClassToMap", "Register")
        s == SlotName("FTestClassToMap", "Register")
        fresh == [heap EXCEPT !.TestClassIndexMap = [y \in Insts |-> NoEntry]]
        dir == RegisterToMap(x, fresh)
    IN  /\ ClientMayRun
        /\ IF Bound(h)
           THEN Commit("CallRegisterToMap", s, x, 0, CallMember(h, x, fresh), 0, "ok", dir)
           ELSE Crash("CallRegisterToMap", s, x, 0, dir)

\* Obj.Print(): the class's own read of Value and Instance; no slot is read.
ObjPrint(x) ==
    /\ ClientMayRun
    /\ Commit("Print", NoSlot, x, 0, R(heap, heap.Value[x]), heap.Instance, "ok",
              R(heap, heap.Value[x]))

Next ==
    \/ \E s \in Slots : TRobStoreLo(s)
    \/ \E s \in Slots : TRobStoreHi(s)
    \/ EnterMain
    \/ \E x \in Insts : GetValue(x)
    \/ \E x \in Insts, v \in Values : SetValue(x, v)
    \/ \E x \in Insts : CallIncrement(x)
    \/ \E p \in Pointers : CallRegister(p)
    \/ \E p \in Pointers : SetInstance(p)
    \/ GetInstance
    \/ \E x \in Insts : CallRegisterToMap(x)
    \/ \E x \in Insts : ObjPrint(x)

Spec == Init /\ [][Next]_vars


(***************************************************************************)
(* Reader threads of the host.  The host starts threads from main, so a    *)
(* thread runs only once static initialization is complete.  A thread      *)
(* reads a slot with plain loads, one word at a time.                      *)
(***************************************************************************)
\* PRIVATE_ACCESS(ClassTag, MemberName): the load of the first word.
ThreadReadLo(t, s) ==
    /\ phase = "main"
    /\ tpc[t] = "idle"
    /\ tpc' = [tpc EXCEPT ![t] = "lo_read"]
    /\ tobs' = [tobs EXCEPT ![t] = <<s, slot[s][1], Null>>]
    /\ UNCHANGED <<progVars, declVars>>

\* PRIVATE_ACCESS(ClassTag, MemberName): the load of the second word.
ThreadReadHi(t) ==
    /\ tpc[t] = "lo_read"
    /\ tpc' = [tpc EXCEPT ![t] = "idle"]
    /\ tobs' = [tobs EXCEPT ![t] = <<@[1], @[2], slot[@[1]][2]>>]
    /\ UNCHANGED <<progVars, declVars>>

NextThreads ==
    \/ \E s \in Slots : TRobStoreLo(s)
    \/ \E s \in Slots : TRobStoreHi(s)
    \/ EnterMain
    \/ \E t \in Threads, s \in Slots : ThreadReadLo(t, s)
    \/ \E t \in Threads : ThreadReadHi(t)

SpecThreads == Init /\ [][NextThreads]_vars

(***************************************************************************)
(* Declarations in one translation unit.  A declaration macro defines the  *)
(* struct F<ClassTag><MemberName>PrivateAccessor; defining a struct of a   *)
(* name already defined is a redefinition and the build fails.             *)
(***************************************************************************)
ClassTags == {"FTestClass", "FTestClassToMap"}
MemberNames == {"Value", "Instance", "Increment", "Register", "ToMapRegister"}

\* struct F##ClassTag##MemberName##PrivateAccessor { ... };
Declare(ClassTag, MemberName) ==
    LET n == SlotName(ClassTag, MemberName)
        d == [tag |-> ClassTag, member |-> MemberName]
    IN  /\ build = "ok"
        /\ Cardinality(DOMAIN defined) < MaxDecls
        /\ IF n \in DOMAIN defined
           THEN /\ build' = "failed"
                /\ defined' = [m \in DOMAIN defined |->
                                  IF m = n THEN <<defined[m][1], d>> ELSE defined[m]]
           ELSE /\ build' = build
                /\ defined' = [m \in DOMAIN defined \cup {n} |->
                                  IF m = n THEN <<d>> ELSE defined[m]]
        /\ UNCHANGED <<progVars, threadVars>>

NextDecl == \E c \in ClassTags, m \in MemberNames : Declare(c, m)

SpecDecl == Init /\ [][NextDecl]_vars


(***************************************************************************)
(* Properties.                                                             *)
(***************************************************************************)
\* h is the handle of the member that the declaration of slot s names by
\* its name and full signature.
IsDeclaredHandle(h, s) ==
    \E d \in Declarations :
        /\ SlotOf(d) = s
        /\ \E m \in FTestClass :
              /\ m.name = d.member
              /\ m.storage = d.storage
              /\ m.kind = d.kind
              /\ m.sig = d.sig
              /\ m.qual = d.qual
              /\ h = Full(Handle(m))

\* The last access read its slot bound, so its behaviour is defined.
LastBound(op) == last.op = op /\ Bound(last.handle)

\* C1, as stated: no read of a slot, by main or by any static initializer,
\* ever observes the slot unbound.
C1_NoReadSeesUnbound ==
    last.slot # NoSlot => last.handle # Unbound

\* C1, amended: every read of a slot made once static initialization has
\* completed comes after its binder's assignment and observes the handle of
\* the declared member.
C1_ReadInMainSeesBound ==
    (last.slot # NoSlot /\ last.phase = "main") =>
        /\ last.slot \in constructed
        /\ writes[last.slot] = 1
        /\ IsDeclaredHandle(last.handle, last.slot)

C1_Witness ==
    /\ last.phase = "main"
    /\ last.op = "GetValue"
    /\ last.slot = SlotName("FTestClass", "Value")

\* C2: each slot is assigned exactly once, by its binder, and once main has
\* begun no step, whatever access it makes, changes any slot.
C2_SlotWrittenOnce ==
    /\ [](\A s \in Slots :
             /\ writes[s] <= 1
             /\ (s \in constructed => writes[s] = 1)
             /\ (phase = "main" => writes[s] = 1))
    /\ [][phase = "main" => (slot' = slot /\ writes' = writes)]_vars
    /\ [][\A s \in Slots : slot'[s] # slot[s] => (binding = s \/ binding' = s)]_vars

C2_Witness ==
    /\ phase = "main"
    /\ last.phase = "main"
    /\ last.op = "SetInstance"
    /\ heap.Value # InitHeap.Value

\* C3: once static initialization has completed every slot holds the handle
\* of the member its declaration names, and no access made from then on
\* fails.
C3_BindingTotal ==
    /\ phase = "main" => \A s \in Slots : IsDeclaredHandle(slot[s], s)
    /\ last.phase = "main" => (last.outcome = "ok" /\ phase = "main")

C3_Witness ==
    /\ phase = "main"
    /\ last.phase = "main"
    /\ last.op = "CallRegisterToMap"

\* C4: with the slot bound, a read through the variable accessor returns
\* the instance's Value and changes nothing; a write of v through it makes
\* that instance's Value v and leaves every other instance as it was; the
\* class's own read returns Value; and Value of an instance changes only in
\* a write to that instance (through the accessor, or by Increment).
C4_FieldRoundTrip ==
    /\ [](LastBound("GetValue") =>
             (last.ret = heap.Value[last.inst] /\ last.ret = last.pre /\ heap = last.direct))
    /\ [](LastBound("SetValue") =>
             (heap.Value[last.inst] = last.arg /\ heap = last.direct))
    /\ [](last.op = "Print" => last.ret = heap.Value[last.inst])
    /\ [][\A x \in Insts : heap'.Value[x] # heap.Value[x] =>
             (last'.op \in {"SetValue", "CallIncrement"} /\ last'.inst = x)]_vars

C4_Witness ==
    /\ LastBound("SetValue")
    /\ last.arg = InitValue + 1
    /\ last.pre = InitValue
    /\ \E y \in Insts : y # last.inst /\ heap.Value[y] = InitValue

\* C5: with the slots bound, a read through the static accessor and the
\* class's own read both return Instance; a write through the accessor and
\* a call of Register through its accessor both leave Instance equal to the
\* value written; Register returns true as a direct call does; and Instance
\* changes in no other step.
C5_StaticAliasing ==
    /\ [](LastBound("GetInstance") => (last.ret = heap.Instance /\ heap = last.direct))
    /\ [](LastBound("SetInstance") => (heap.Instance = last.arg /\ heap = last.direct))
    /\ [](LastBound("CallRegister") =>
             /\ heap.Instance = last.arg
             /\ last.ret = 1
             /\ last.ret = last.directRet
             /\ heap = last.direct)
    /\ [](last.op = "Print" => last.ret2 = heap.Instance)
    /\ [][heap'.Instance # heap.Instance =>
             (last'.op \in {"SetInstance", "CallRegister"} /\ last'.arg = heap'.Instance)]_vars

C5_Witness ==
    /\ LastBound("GetInstance")
    /\ last.ret \in Insts

\* C6: with the slot bound, a call of a member function through the method
\* accessor leaves the data and the return value that a direct call from
\* the same state leaves; Increment raises Value of that instance by one.
C6_MethodEquivalence ==
    /\ LastBound("CallIncrement") =>
          /\ heap = last.direct
          /\ last.ret = last.directRet
          /\ heap.Value[last.inst] = last.pre + 1
    /\ LastBound("CallRegisterToMap") =>
          /\ heap = last.direct
          /\ last.ret = last.directRet

C6_Witness ==
    /\ LastBound("CallIncrement")
    /\ heap.Value[last.inst] = InitValue + 1

\* C7: the slots of the two Register accessors are different slots; once
\* bound, each holds the overload its declaration gives the signature of;
\* a call through either has the effect of its own overload only.
C7_OverloadSelection ==
    LET sStatic == SlotName("FTestClass", "Register")
        sToMap == SlotName("FTestClassToMap", "Register")
    IN  /\ sStatic # sToMap
        /\ sStatic \in constructed => slot[sStatic] = Full(Handle(MRegister))
        /\ sToMap \in constructed => slot[sToMap] = Full(Handle(MRegisterToMap))
        /\ LastBound("CallRegister") =>
              /\ heap.Instance = last.arg
              /\ heap.TestClassIndexMap = last.direct.TestClassIndexMap
              /\ heap = last.direct
              /\ last.ret = 1
        /\ LastBound("CallRegisterToMap") =>
              /\ heap.TestClassIndexMap[last.inst] = heap.Value[last.inst]
              /\ heap.Instance = last.direct.Instance
              /\ heap = last.direct

C7_Witness ==
    /\ LastBound("CallRegisterToMap")
    /\ heap.Instance \in Insts
    /\ heap.TestClassIndexMap[last.inst] = InitValue

\* C8: every slot read a thread has completed returned both words of the
\* handle of the declared member, a read in progress has the first word of
\* it, and two threads that read the same slot hold the same value.
C8_PublishOnce ==
    \A t \in Threads :
        /\ (tpc[t] = "lo_read") => tobs[t][2] = Target(tobs[t][1])
        /\ (tpc[t] = "idle" /\ tobs[t][1] # NoSlot) =>
              /\ IsDeclaredHandle(<<tobs[t][2], tobs[t][3]>>, tobs[t][1])
              /\ \A u \in Threads :
                    (tpc[u] = "idle" /\ tobs[u][1] = tobs[t][1]) => tobs[u] = tobs[t]

C8_Witness ==
    \E t, u \in Threads :
        /\ t # u
        /\ tpc[t] = "idle" /\ tpc[u] = "idle"
        /\ tobs[t][1] # NoSlot
        /\ tobs[t][1] = tobs[u][1]

\* C9: a step that assigns slot s assigns no other slot and changes neither
\* the class's data nor anything else of the program; a constructed binder
\* has assigned once; and a bound slot holds the handle of its declared
\* member whatever binders ran before it.
C9_BinderFrame ==
    /\ [][\A s \in Slots : slot'[s] # slot[s] =>
             /\ \A r \in Slots \ {s} : slot'[r] = slot[r] /\ writes'[r] = writes[r]
             /\ heap' = heap
             /\ last' = last
             /\ phase' = phase]_vars
    /\ [][constructed' # constructed => (heap' = heap /\ last' = last)]_vars
    /\ [](\A s \in constructed : writes[s] = 1 /\ IsDeclaredHandle(slot[s], s))

C9_Witness ==
    /\ heap = InitHeap
    /\ last.op = "none"
    /\ \E s \in constructed : \E r \in Slots \ constructed : slot[r] = Unbound

\* The text the two names are pasted into a slot name from.
Pasted(d) == d.tag \o d.member

\* C10, as stated: only declarations of the same (ClassTag, MemberName)
\* pair collide.
C10_OnlySamePairCollides ==
    \A n \in DOMAIN defined :
        Len(defined[n]) = 2 => defined[n][1] = defined[n][2]

\* C10, amended: two declarations collide exactly when ClassTag followed by
\* MemberName reads the same; accepted declarations have different slot
\* names; a collision fails the build, so no slot is shared by two targets.
C10_CollideIffSamePasted ==
    /\ \A n \in DOMAIN defined :
          /\ SlotOf(defined[n][1]) = n
          /\ Len(defined[n]) = 2 => Pasted(defined[n][1]) = Pasted(defined[n][2])
    /\ \A n, m \in DOMAIN defined :
          n # m => Pasted(defined[n][1]) # Pasted(defined[m][1])
    /\ build = "ok" <=> \A n \in DOMAIN defined : Len(defined[n]) = 1

C10_Witness ==
    /\ build = "failed"
    /\ \E n \in DOMAIN defined :
          /\ Len(defined[n]) = 2
          /\ defined[n][1] # defined[n][2]

=============================================================================
